---- MODULE Spec2Model ----
(***************************************************************************)
(* Model of the ca-cpu-simulator: the CPU engine (cpu.rs), the interactive *)
(* driver (app.rs), the assembler (assembler.rs) and the program loader    *)
(* (main.rs).                                                              *)
(***************************************************************************)
EXTENDS Integers, Sequences, FiniteSets, TLC

VARIABLES
    cpu,                \* App.cpu : CPU {r0, r1, r2, r3, pc, ir, memory, halted}
    program,            \* App.program : Vec<u16>
    memory_list_state,  \* ListState.selected : <<>> is None, <<i>> is Some(i)
    register_logs,      \* App.register_logs : Vec<String>
    step_mode,          \* App.step_mode
    exit,               \* App.exit
    loop,               \* position of the running process
    panicked,           \* TRUE once a panic has unwound the process
    last,               \* label of the last operation performed
    pre,                \* the CPU as it was before the last operation
    call,               \* opcode/register/operand of the last decode or execute
    source,             \* assembler input: sequence of lines (sequences of characters)
    line_no,            \* number of lines the assembler has consumed
    output_file,        \* bytes written to program.bin
    given,              \* arguments handed to a function called on its own
    result,             \* the value that call returned
    cycles              \* fetch-decode-execute cycles completed since start or reset

vars == <<cpu, program, memory_list_state, register_logs, step_mode, exit,
          loop, panicked, last, pre, call, source, line_no, output_file,
          given, result, cycles>>

-----------------------------------------------------------------------------
(* Bounds *)

\* cap on the number of cycles logged since the last reset
MaxCycles == 5

-----------------------------------------------------------------------------
(* Machine constants and integer helpers *)

MemSize == 64

U16 == 65536

wrapping_add(a, b) == (a + b) % U16

\* u16::saturating_sub
saturating_sub(a, b) == IF a < b THEN 0 ELSE a - b

wrapping_sub(a, b) == (a - b + U16) % U16

\* x >> n on unsigned integers
Shr(x, n) == x \div (2 ^ n)

RECURSIVE BitOr(_, _)
\* a | b on unsigned integers
BitOr(a, b) ==
    IF a = 0 THEN b
    ELSE IF b = 0 THEN a
    ELSE (IF (a % 2 = 1) \/ (b % 2 = 1) THEN 1 ELSE 0)
         + 2 * BitOr(a \div 2, b \div 2)

\* outcome of an operation that may panic; a panic leaves the value untouched
Ok(c) == [cpu |-> c, panic |-> FALSE]

Panic(c) == [cpu |-> c, panic |-> TRUE]

-----------------------------------------------------------------------------
(* cpu.rs : OpCode *)

u8_to_opcode_8isMOV(value) ==
    CASE value = 0 -> "HALT"
      [] value = 1 -> "LVAL"
      [] value = 2 -> "LOAD"
      [] value = 3 -> "STORE"
      [] value = 4 -> "ADD"
      [] value = 5 -> "SUB"
      [] value = 6 -> "JMP"
      [] value = 7 -> "MOV"
      [] value = 8 -> "MOV"
      [] OTHER -> "None"

u8_to_opcode(value) ==
    CASE value = 0 -> "HALT"
      [] value = 1 -> "LVAL"
      [] value = 2 -> "LOAD"
      [] value = 3 -> "STORE"
      [] value = 4 -> "ADD"
      [] value = 5 -> "SUB"
      [] value = 6 -> "JMP"
      [] value = 7 -> "MOV"
      [] OTHER -> "None"

-----------------------------------------------------------------------------
(* cpu.rs : CPU *)

ZeroMemory == [a \in 0 .. (MemSize - 1) |-> 0]

default ==
    [r0 |-> 0, r1 |-> 0, r2 |-> 0, r3 |-> 0, pc |-> 0, ir |-> 0,
     memory |-> ZeroMemory, halted |-> FALSE]

\* CPU::new : the slice copy panics when the program is longer than memory
new_truncating(prog) ==
    Ok([default EXCEPT !.memory =
           [a \in 0 .. (MemSize - 1) |->
               IF a < Len(prog) THEN prog[a + 1] ELSE 0]])

new(prog) ==
    IF Len(prog) > MemSize
    THEN Panic(default)
    ELSE Ok([default EXCEPT !.memory =
                [a \in 0 .. (MemSize - 1) |->
                    IF a < Len(prog) THEN prog[a + 1] ELSE 0]])

fetch_increments_first(c) ==
    IF c.pc >= MemSize
    THEN Panic(c)
    ELSE Ok([c EXCEPT !.ir = c.memory[wrapping_add(c.pc, 1) % MemSize],
                      !.pc = wrapping_add(c.pc, 1)])

fetch_wrapping_index(c) ==
    Ok([c EXCEPT !.ir = c.memory[c.pc % MemSize],
                 !.pc = wrapping_add(c.pc, 1)])

fetch(c) ==
    IF c.pc >= MemSize
    THEN Panic(c)
    ELSE Ok([c EXCEPT !.ir = c.memory[c.pc],
                      !.pc = wrapping_add(c.pc, 1)])

decode_narrow_register(c) ==
    <<Shr(c.ir, 12) % 16, Shr(c.ir, 8) % 8, c.ir % 256>>

decode(c) ==
    <<Shr(c.ir, 12) % 16, Shr(c.ir, 8) % 16, c.ir % 256>>

get_register_clamped(c, index) ==
    CASE index = 0 -> c.r0
      [] index = 1 -> c.r1
      [] index = 2 -> c.r2
      [] OTHER -> c.r3

get_register(c, index) ==
    CASE index % 4 = 0 -> c.r0
      [] index % 4 = 1 -> c.r1
      [] index % 4 = 2 -> c.r2
      [] index % 4 = 3 -> c.r3

\* *self.get_register_mut(index) = value
get_register_mut(c, index, value) ==
    CASE index % 4 = 0 -> [c EXCEPT !.r0 = value]
      [] index % 4 = 1 -> [c EXCEPT !.r1 = value]
      [] index % 4 = 2 -> [c EXCEPT !.r2 = value]
      [] index % 4 = 3 -> [c EXCEPT !.r3 = value]

execute_HALT_clears_pc(c, register, operand) ==
    Ok([c EXCEPT !.halted = TRUE, !.pc = 0])

execute_HALT_noop(c, register, operand) == Ok(c)

execute_HALT(c, register, operand) ==
    Ok([c EXCEPT !.halted = TRUE])

execute_LVAL(c, register, operand) ==
    Ok(get_register_mut(c, register, operand))

execute_LOAD_wrapping_index(c, register, operand) ==
    Ok(get_register_mut(c, register, c.memory[operand % MemSize]))

execute_LOAD(c, register, operand) ==
    IF operand >= MemSize
    THEN Panic(c)
    ELSE Ok(get_register_mut(c, register, c.memory[operand]))

execute_STORE_sets_ir(c, register, operand) ==
    IF operand >= MemSize
    THEN Panic(c)
    ELSE Ok([c EXCEPT !.memory[operand] = get_register(c, register),
                      !.ir = get_register(c, register)])

execute_STORE(c, register, operand) ==
    IF operand >= MemSize
    THEN Panic(c)
    ELSE Ok([c EXCEPT !.memory[operand] = get_register(c, register)])

execute_ADD_saturating(c, register, operand) ==
    LET sum == get_register(c, register) + get_register(c, operand)
    IN  Ok(get_register_mut(c, register, IF sum >= U16 THEN U16 - 1 ELSE sum))

execute_ADD(c, register, operand) ==
    Ok(get_register_mut(c, register,
           wrapping_add(get_register(c, register), get_register(c, operand))))

execute_SUB_saturating(c, register, operand) ==
    Ok(get_register_mut(c, register,
           saturating_sub(get_register(c, register), get_register(c, operand))))

execute_SUB(c, register, operand) ==
    Ok(get_register_mut(c, register,
           wrapping_sub(get_register(c, register), get_register(c, operand))))

execute_JMP_relative(c, register, operand) ==
    Ok([c EXCEPT !.pc = wrapping_add(c.pc, operand)])

execute_JMP_resumes(c, register, operand) ==
    Ok([c EXCEPT !.pc = operand, !.halted = FALSE])

execute_JMP_masked(c, register, operand) ==
    Ok([c EXCEPT !.pc = operand % MemSize])

execute_JMP(c, register, operand) ==
    Ok([c EXCEPT !.pc = operand])

execute_MOV(c, register, operand) ==
    Ok(get_register_mut(c, register, get_register(c, operand)))

execute(c, opcode, register, operand) ==
    LET op == u8_to_opcode(opcode)
    IN  CASE op = "None"  -> Panic(c)
          [] op = "HALT"  -> execute_HALT(c, register, operand)
          [] op = "LVAL"  -> execute_LVAL(c, register, operand)
          [] op = "LOAD"  -> execute_LOAD(c, register, operand)
          [] op = "STORE" -> execute_STORE(c, register, operand)
          [] op = "ADD"   -> execute_ADD(c, register, operand)
          [] op = "SUB"   -> execute_SUB(c, register, operand)
          [] op = "JMP"   -> execute_JMP(c, register, operand)
          [] op = "MOV"   -> execute_MOV(c, register, operand)

\* log_registers : the values the log line formats
log_registers(c) == <<c.pc, c.r0, c.r1, c.r2, c.r3>>

\* one cycle as the driver composes it: fetch, decode, execute
cycle(c) ==
    LET f == fetch(c)
    IN  IF f.panic THEN f
        ELSE LET d == decode(f.cpu)
             IN  execute(f.cpu, d[1], d[2], d[3])

-----------------------------------------------------------------------------
(* app.rs : App, the interactive driver *)

NoCall == [op |-> "none", opcode |-> 0, register |-> 0, operand |-> 0]

CallOf(op, d) == [op |-> op, opcode |-> d[1], register |-> d[2], operand |-> d[3]]

step_condition_ignores_halted(sm, halted) == sm

\* App::step : if self.step_mode && !self.cpu.halted
step_condition(sm, halted) == sm /\ ~halted

run_condition_ignores_step_mode(sm, halted) == ~halted

\* App::run : if !self.cpu.halted && !self.step_mode
run_condition(sm, halted) == ~halted /\ ~sm

\* fetch, decode, execute, push the log line, highlight the current instruction;
\* a panic unwinds before the log line is pushed
RunCycle ==
    /\ Len(register_logs) < MaxCycles
    /\ LET r == cycle(cpu)
       IN  /\ cpu' = r.cpu
           /\ call' = CallOf("cycle", decode(r.cpu))
           /\ IF r.panic
              THEN /\ panicked' = TRUE
                   /\ loop' = "panicked"
                   /\ UNCHANGED <<register_logs, memory_list_state, cycles>>
              ELSE /\ register_logs' = Append(register_logs, log_registers(r.cpu))
                   /\ cycles' = cycles + 1
                   /\ memory_list_state' = <<saturating_sub(r.cpu.pc, 1)>>
                   /\ loop' = IF loop = "events" THEN "tail" ELSE "events"
                   /\ UNCHANGED panicked

\* KeyCode::Enter => self.step()
step ==
    /\ loop = "events"
    /\ IF step_condition(step_mode, cpu.halted)
       THEN RunCycle
       ELSE /\ memory_list_state' = <<saturating_sub(cpu.pc, 1)>>
            /\ loop' = "tail"
            /\ call' = NoCall
            /\ UNCHANGED <<cpu, register_logs, panicked, cycles>>
    /\ pre' = cpu
    /\ last' = "enter"
    /\ UNCHANGED <<program, step_mode, exit, source, line_no, output_file,
                   given, result>>

\* KeyCode::Char('q') => self.exit = true
quit ==
    /\ loop = "events"
    /\ exit' = TRUE
    /\ loop' = "tail"
    /\ pre' = cpu
    /\ last' = "q"
    /\ call' = NoCall
    /\ UNCHANGED <<cpu, program, memory_list_state, register_logs, step_mode,
                   panicked, source, line_no, output_file,
                   given, result, cycles>>

reset_cpu_without_new ==
    /\ loop \in {"events", "engine"}
    /\ cpu' = [cpu EXCEPT !.halted = FALSE, !.pc = 0, !.memory = ZeroMemory]
    /\ loop' = IF loop = "events" THEN "tail" ELSE "called"
    /\ register_logs' = <<>>
    /\ cycles' = 0
    /\ memory_list_state' = <<>>
    /\ pre' = cpu
    /\ last' = "r"
    /\ call' = NoCall
    /\ UNCHANGED <<program, step_mode, exit, panicked, source, line_no,
                   output_file, given, result>>

\* KeyCode::Char('r') => self.reset_cpu()
reset_cpu ==
    /\ loop \in {"events", "engine"}
    /\ LET r == new(program)
       IN  IF r.panic
           THEN /\ cpu' = [cpu EXCEPT !.halted = FALSE, !.pc = 0,
                                      !.memory = ZeroMemory]
                /\ panicked' = TRUE
                /\ loop' = "panicked"
           ELSE /\ cpu' = r.cpu
                /\ loop' = IF loop = "events" THEN "tail" ELSE "called"
                /\ UNCHANGED panicked
    /\ register_logs' = <<>>
    /\ cycles' = 0
    /\ memory_list_state' = <<>>
    /\ pre' = cpu
    /\ last' = "r"
    /\ call' = NoCall
    /\ UNCHANGED <<program, step_mode, exit, source, line_no, output_file,
                   given, result>>

\* KeyCode::Up => self.scroll_memory_up()
scroll_memory_up ==
    /\ loop = "events"
    /\ memory_list_state' =
          IF memory_list_state = <<>> THEN <<0>>
          ELSE IF memory_list_state[1] = 0 THEN <<MemSize - 1>>
          ELSE <<memory_list_state[1] - 1>>
    /\ loop' = "tail"
    /\ pre' = cpu
    /\ last' = "up"
    /\ call' = NoCall
    /\ UNCHANGED <<cpu, program, register_logs, step_mode, exit, panicked,
                   source, line_no, output_file,
                   given, result, cycles>>

\* KeyCode::Down => self.scroll_memory_down()
scroll_memory_down ==
    /\ loop = "events"
    /\ memory_list_state' =
          IF memory_list_state = <<>> THEN <<0>>
          ELSE IF memory_list_state[1] >= MemSize - 1 THEN <<0>>
          ELSE <<memory_list_state[1] + 1>>
    /\ loop' = "tail"
    /\ pre' = cpu
    /\ last' = "down"
    /\ call' = NoCall
    /\ UNCHANGED <<cpu, program, register_logs, step_mode, exit, panicked,
                   source, line_no, output_file,
                   given, result, cycles>>

\* KeyCode::Char('t') => self.step_mode = !self.step_mode
toggle_step_mode ==
    /\ loop = "events"
    /\ step_mode' = ~step_mode
    /\ loop' = "tail"
    /\ pre' = cpu
    /\ last' = "t"
    /\ call' = NoCall
    /\ UNCHANGED <<cpu, program, memory_list_state, register_logs, exit, panicked,
                   source, line_no, output_file,
                   given, result, cycles>>

\* the poll timed out, or the event was no key press, or another key
no_key ==
    /\ loop = "events"
    /\ loop' = "tail"
    /\ pre' = cpu
    /\ last' = "none"
    /\ call' = NoCall
    /\ UNCHANGED <<cpu, program, memory_list_state, register_logs, step_mode, exit,
                   panicked, source, line_no, output_file,
                   given, result, cycles>>

\* App::run after handle_events : break on exit, else the free-running cycle
run_tail ==
    /\ loop = "tail"
    /\ IF exit
       THEN /\ loop' = "exited"
            /\ call' = NoCall
            /\ UNCHANGED <<cpu, register_logs, memory_list_state, panicked, cycles>>
       ELSE IF run_condition(step_mode, cpu.halted)
       THEN RunCycle
       ELSE /\ loop' = "events"
            /\ call' = NoCall
            /\ UNCHANGED <<cpu, register_logs, memory_list_state, panicked, cycles>>
    /\ pre' = cpu
    /\ last' = "tail"
    /\ UNCHANGED <<program, step_mode, exit, source, line_no, output_file,
                   given, result>>

\* programs handed to the driver, as 16-bit words
ProgAdd == <<4101, 4355, 16385, 0>>          \* LVAL R0,5 / LVAL R1,3 / ADD R0,R1 / HALT
ProgJmp == <<24576, 0>>                      \* JMP 0 / HALT
ProgStore == <<4359, 12544, 0>>              \* LVAL R1,7 / STORE R1,0 / HALT
ProgHaltFirst == <<0, 4101>>                 \* HALT / LVAL R0,5
ProgBadOpcode == <<36864>>                   \* opcode 9
ProgLoadFar == <<8256>>                      \* LOAD R0,64
ProgJmpFar == <<24640>>                      \* JMP 64

Programs ==
    {<<>>, ProgAdd, ProgJmp, ProgStore, ProgHaltFirst, ProgBadOpcode,
     ProgLoadFar, ProgJmpFar}

\* App.program as the application is constructed : the loaded program
app_program(prog) == prog

\* the driver at the top of its loop, built around CPU::new(&program)
Init ==
    /\ \E prog \in Programs :
          /\ program = app_program(prog)
          /\ cpu = new(prog).cpu
    /\ memory_list_state = <<0>>
    /\ register_logs = <<>>
    /\ step_mode = TRUE
    /\ exit = FALSE
    /\ loop = "events"
    /\ panicked = FALSE
    /\ last = "init"
    /\ pre = cpu
    /\ call = NoCall
    /\ source = <<>>
    /\ line_no = 0
    /\ output_file = <<>>
    /\ given = <<>>
    /\ result = <<>>
    /\ cycles = 0

Next ==
    \/ step
    \/ quit
    \/ reset_cpu
    \/ scroll_memory_up
    \/ scroll_memory_down
    \/ toggle_step_mode
    \/ no_key
    \/ run_tail

Spec == Init /\ [][Next]_vars

-----------------------------------------------------------------------------
(* Direct calls of the engine's public operations on a CPU in any state *)

RegFiles ==
    {<<65535, 1, 2, 3>>, <<0, 1, 65535, 40000>>, <<1000, 2000, 3000, 4000>>}

MemImages ==
    {[a \in 0 .. (MemSize - 1) |-> a + 100],
     [a \in 0 .. (MemSize - 1) |-> 65535 - a]}

\* <<pc, ir, halted>>
Controls ==
    {<<0, 0, FALSE>>, <<63, 4101, FALSE>>, <<64, 7941, TRUE>>,
     <<65535, 36864, FALSE>>, <<3, 24576, TRUE>>}

EngineCpus ==
    {[r0 |-> r[1], r1 |-> r[2], r2 |-> r[3], r3 |-> r[4],
      pc |-> k[1], ir |-> k[2], memory |-> m, halted |-> k[3]] :
        r \in RegFiles, m \in MemImages, k \in Controls}

Opcodes == 0 .. 15

Selectors == 0 .. 15

Operands == (0 .. 15) \cup {63, 64, 255}

\* the state change of a direct call with outcome r
Called(r) ==
    /\ cpu' = r.cpu
    /\ panicked' = r.panic
    /\ loop' = IF r.panic THEN "panicked" ELSE "called"
    /\ pre' = cpu
    /\ UNCHANGED <<program, memory_list_state, register_logs, step_mode, exit,
                   source, line_no, output_file,
                   given, result, cycles>>

call_fetch ==
    /\ loop = "engine"
    /\ Called(fetch(cpu))
    /\ last' = "fetch"
    /\ call' = NoCall

call_decode ==
    /\ loop \in {"engine", "decode"}
    /\ Called(Ok(cpu))
    /\ last' = "decode"
    /\ call' = CallOf("decode", decode(cpu))

call_execute ==
    /\ loop = "engine"
    /\ \E opcode \in Opcodes, register \in Selectors, operand \in Operands :
          /\ Called(execute(cpu, opcode, register, operand))
          /\ call' = CallOf("execute", <<opcode, register, operand>>)
    /\ last' = "execute"

-----------------------------------------------------------------------------
(* assembler.rs : text is a sequence of one-character strings *)

\* char::is_whitespace on the characters a line can hold
is_whitespace(ch) == ch \in {" ", "\t"}

RECURSIVE trim_start(_)
trim_start(s) ==
    IF s = <<>> THEN s
    ELSE IF is_whitespace(Head(s)) THEN trim_start(Tail(s))
    ELSE s

RECURSIVE trim_end(_)
trim_end(s) ==
    IF s = <<>> THEN s
    ELSE IF is_whitespace(s[Len(s)]) THEN trim_end(SubSeq(s, 1, Len(s) - 1))
    ELSE s

\* str::trim
trim(s) == trim_end(trim_start(s))

\* least element of a non-empty set of positions
First(idx) == CHOOSE i \in idx : \A j \in idx : i <= j

\* str::find(char::is_whitespace) : position of the first whitespace, 0 for None
find_whitespace(s) ==
    LET idx == {i \in 1 .. Len(s) : is_whitespace(s[i])}
    IN  IF idx = {} THEN 0 ELSE First(idx)

\* str::split_once(char::is_whitespace) : <<>> for None
split_once_whitespace(s) ==
    LET i == find_whitespace(s)
    IN  IF i = 0 THEN <<>>
        ELSE <<SubSeq(s, 1, i - 1), SubSeq(s, i + 1, Len(s))>>

\* str::split_once(", ") : <<>> for None
split_once_comma(s) ==
    LET idx == {i \in 1 .. (Len(s) - 1) : s[i] = "," /\ s[i + 1] = " "}
    IN  IF idx = {} THEN <<>>
        ELSE <<SubSeq(s, 1, First(idx) - 1), SubSeq(s, First(idx) + 2, Len(s))>>

Digits == <<"0", "1", "2", "3", "4", "5", "6", "7", "8", "9">>

is_digit(ch) == \E d \in 1 .. 10 : Digits[d] = ch

digit_value(ch) == (CHOOSE d \in 1 .. 10 : Digits[d] = ch) - 1

RECURSIVE digits_value(_, _)
digits_value(s, acc) ==
    IF s = <<>> THEN acc
    ELSE digits_value(Tail(s), 10 * acc + digit_value(Head(s)))

\* str::parse::<u16> : the value, or -1 for Err (empty, a non-digit, overflow);
\* one leading '+' is accepted
parse_u16(s) ==
    LET body == IF s # <<>> /\ Head(s) = "+" THEN Tail(s) ELSE s
    IN  IF body = <<>> THEN -1
        ELSE IF \E i \in 1 .. Len(body) : ~is_digit(body[i]) THEN -1
        ELSE IF digits_value(body, 0) >= U16 THEN -1
        ELSE digits_value(body, 0)

\* enum OpCode of the assembler
assembler_OpCode(mnemonic) ==
    CASE mnemonic = <<"H", "A", "L", "T">> -> 0
      [] mnemonic = <<"L", "V", "A", "L">> -> 1
      [] mnemonic = <<"L", "O", "A", "D">> -> 2
      [] mnemonic = <<"S", "T", "O", "R", "E">> -> 3
      [] mnemonic = <<"A", "D", "D">> -> 4
      [] mnemonic = <<"S", "U", "B">> -> 5
      [] mnemonic = <<"J", "M", "P">> -> 6
      [] mnemonic = <<"M", "O", "V">> -> 7
      [] OTHER -> -1

assembler_Register_lenient(token) ==
    IF Len(token) = 2 /\ token[1] = "R" /\ is_digit(token[2])
    THEN digit_value(token[2]) % 4
    ELSE -1

\* enum Register, by the match on the token : -1 is the panicking arm
assembler_Register(token) ==
    CASE token = <<"R", "0">> -> 0
      [] token = <<"R", "1">> -> 1
      [] token = <<"R", "2">> -> 2
      [] token = <<"R", "3">> -> 3
      [] OTHER -> -1

AsmSkip == [kind |-> "skip", word |-> 0]

AsmPanic == [kind |-> "panic", word |-> 0]

AsmWord(w) == [kind |-> "word", word |-> w]

\* the arms of LVAL, LOAD and STORE : register, then a parsed number
assemble_reg_imm(code, line) ==
    LET sp == split_once_whitespace(line)
    IN  IF sp = <<>> THEN AsmPanic
        ELSE LET args == split_once_comma(sp[2])
             IN  IF args = <<>> THEN AsmPanic
                 ELSE IF assembler_Register(args[1]) < 0 THEN AsmPanic
                 ELSE IF parse_u16(args[2]) < 0 THEN AsmPanic
                 ELSE AsmWord(BitOr(BitOr(code * 4096,
                                          assembler_Register(args[1]) * 256),
                                    parse_u16(args[2])))

\* the arms of ADD, SUB and MOV : two registers
assemble_reg_reg(code, line) ==
    LET sp == split_once_whitespace(line)
    IN  IF sp = <<>> THEN AsmPanic
        ELSE LET args == split_once_comma(sp[2])
             IN  IF args = <<>> THEN AsmPanic
                 ELSE IF assembler_Register(args[1]) < 0 THEN AsmPanic
                 ELSE IF assembler_Register(args[2]) < 0 THEN AsmPanic
                 ELSE AsmWord(BitOr(BitOr(code * 4096,
                                          assembler_Register(args[1]) * 256),
                                    assembler_Register(args[2])))

\* the arm of JMP : a parsed number
assemble_jmp(code, line) ==
    LET sp == split_once_whitespace(line)
    IN  IF sp = <<>> THEN AsmPanic
        ELSE IF parse_u16(sp[2]) < 0 THEN AsmPanic
        ELSE AsmWord(BitOr(code * 4096, parse_u16(sp[2])))

\* the body of the loop over the lines
assemble_line(line) ==
    LET first_char == IF line = <<>> THEN ";" ELSE line[1]
        trimmed_line == trim(line)
        i == find_whitespace(trimmed_line)
        instruction == trim(IF i = 0 THEN trimmed_line
                            ELSE SubSeq(trimmed_line, 1, i - 1))
        code == assembler_OpCode(instruction)
    IN  IF first_char = ";" \/ first_char = "\n" THEN AsmSkip
        ELSE CASE code = 0 -> AsmWord(code * 4096)
               [] code \in {1, 2, 3} -> assemble_reg_imm(code, line)
               [] code \in {4, 5, 7} -> assemble_reg_reg(code, line)
               [] code = 6 -> assemble_jmp(code, line)
               [] OTHER -> AsmPanic

to_le_bytes(w) == <<w % 256, w \div 256>>

\* u16::to_be_bytes
to_be_bytes(w) == <<w \div 256, w % 256>>

\* one iteration of the loop over the lines
assemble ==
    /\ loop = "asm"
    /\ line_no < Len(source)
    /\ LET r == assemble_line(source[line_no + 1])
       IN  /\ loop' = IF r.kind = "panic" THEN "asm_failed" ELSE "asm"
           /\ output_file' = IF r.kind = "word"
                             THEN output_file \o to_be_bytes(r.word)
                             ELSE output_file
    /\ line_no' = line_no + 1
    /\ last' = "asm"
    /\ UNCHANGED <<cpu, program, memory_list_state, register_logs, step_mode, exit,
                   panicked, pre, call, source, given, result, cycles>>

-----------------------------------------------------------------------------
(* main.rs : the loader *)

from_be_bytes(b0, b1) == b1 + 256 * b0

\* u16::from_le_bytes([b0, b1])
from_le_bytes(b0, b1) == b0 + 256 * b1

read_program_in_order(bytes) ==
    [k \in 1 .. (Len(bytes) \div 2) |->
        from_le_bytes(bytes[2 * k - 1], bytes[2 * k])]

\* program_bin.chunks_exact(2).map(|chunk| u16::from_le_bytes([chunk[1], chunk[0]]))
read_program(bytes) ==
    [k \in 1 .. (Len(bytes) \div 2) |->
        from_le_bytes(bytes[2 * k], bytes[2 * k - 1])]

\* main : read program.bin, build the CPU and enter the driver's loop
load_program ==
    /\ \/ loop = "asm" /\ line_no = Len(source)
       \/ loop = "asm_failed"
    /\ program' = app_program(read_program(output_file))
    /\ LET r == new(read_program(output_file))
       IN  /\ cpu' = r.cpu
           /\ panicked' = r.panic
           /\ loop' = IF r.panic THEN "panicked" ELSE "events"
    /\ memory_list_state' = <<0>>
    /\ pre' = cpu
    /\ last' = "load"
    /\ call' = NoCall
    /\ UNCHANGED <<register_logs, step_mode, exit, source, line_no, output_file,
                   given, result, cycles>>

\* assembler inputs
SrcAdd ==
    <<<<"L", "V", "A", "L", " ", "R", "0", ",", " ", "5">>,
      <<"L", "V", "A", "L", " ", "R", "1", ",", " ", "3">>,
      <<"A", "D", "D", " ", "R", "0", ",", " ", "R", "1">>,
      <<"H", "A", "L", "T">>>>

SrcJmp ==
    <<<<"J", "M", "P", " ", "0">>,
      <<"H", "A", "L", "T">>>>

SrcComment ==
    <<<<";", " ", "x">>,
      <<>>,
      <<"M", "O", "V", " ", "R", "2", ",", " ", "R", "3">>,
      <<"S", "U", "B", " ", "R", "2", ",", " ", "R", "2">>,
      <<"H", "A", "L", "T">>>>

SrcBadRegister ==
    <<<<"L", "O", "A", "D", " ", "R", "3", ",", " ", "1">>,
      <<"S", "T", "O", "R", "E", " ", "R", "4", ",", " ", "2">>,
      <<"H", "A", "L", "T">>>>

SrcBadMnemonic ==
    <<<<"S", "T", "O", "R", "E", " ", "R", "1", ",", " ", "6", "3">>,
      <<"N", "O", "P">>>>

\* n lines LVAL R1, 7
SrcFill(n) == [k \in 1 .. n |-> <<"L", "V", "A", "L", " ", "R", "1", ",", " ", "7">>]

\* LVAL R1, 7 / STORE R1, 0 / HALT : the program overwrites its first word
SrcStore ==
    <<<<"L", "V", "A", "L", " ", "R", "1", ",", " ", "7">>,
      <<"S", "T", "O", "R", "E", " ", "R", "1", ",", " ", "0">>,
      <<"H", "A", "L", "T">>>>

RECURSIVE Numeral(_)
\* the decimal text of n
Numeral(n) ==
    IF n < 10 THEN <<Digits[n + 1]>>
    ELSE Numeral(n \div 10) \o <<Digits[(n % 10) + 1]>>

MnemonicText(m) ==
    CASE m = "HALT" -> <<"H", "A", "L", "T">>
      [] m = "LVAL" -> <<"L", "V", "A", "L">>
      [] m = "LOAD" -> <<"L", "O", "A", "D">>
      [] m = "STORE" -> <<"S", "T", "O", "R", "E">>
      [] m = "ADD" -> <<"A", "D", "D">>
      [] m = "SUB" -> <<"S", "U", "B">>
      [] m = "JMP" -> <<"J", "M", "P">>
      [] m = "MOV" -> <<"M", "O", "V">>

RegisterText(r) == <<"R", Digits[r + 1]>>

GoodLine == <<"L", "V", "A", "L", " ", "R", "1", ",", " ", "7">>

HaltLine == <<"H", "A", "L", "T">>

\* lines whose mnemonic is none of the eight
BadMnemonicLines ==
    {<<"N", "O", "P">>,
     <<"h", "a", "l", "t">>,
     <<"L", "V", "A", " ", "R", "0", ",", " ", "1">>,
     <<"H", "A", "L", "T", "X">>}

\* lines with a register token other than R0, R1, R2, R3
BadRegisterLines ==
    {<<"L", "V", "A", "L", " ", "R", "4", ",", " ", "1">>,
     <<"L", "O", "A", "D", " ", "r", "0", ",", " ", "1">>,
     <<"S", "T", "O", "R", "E", " ", "R", "4", ",", " ", "2">>,
     <<"S", "T", "O", "R", "E", " ", "R", ",", " ", "1">>,
     <<"A", "D", "D", " ", "R", "0", ",", " ", "R", "4">>,
     <<"A", "D", "D", " ", "R", "9", ",", " ", "R", "0">>,
     <<"S", "U", "B", " ", "R", "0", ",", " ", "1">>,
     <<"M", "O", "V", " ", "R", "0", ",", " ", "7">>,
     <<"M", "O", "V", " ", "X", ",", " ", "R", "1">>}

\* lines with a numeric literal outside 0..255
OversizedLiteralLines ==
    {<<"L", "V", "A", "L", " ", "R", "0", ",", " ", "2", "5", "6">>,
     <<"L", "V", "A", "L", " ", "R", "0", ",", " ", "3", "0", "0">>,
     <<"L", "O", "A", "D", " ", "R", "1", ",", " ", "4", "0", "9", "6">>,
     <<"S", "T", "O", "R", "E", " ", "R", "2", ",", " ", "6", "5", "5", "3", "5">>,
     <<"L", "V", "A", "L", " ", "R", "3", ",", " ", "6", "5", "5", "3", "6">>,
     <<"L", "V", "A", "L", " ", "R", "0", ",", " ", "-", "1">>,
     <<"J", "M", "P", " ", "2", "5", "6">>,
     <<"J", "M", "P", " ", "4", "0", "9", "6">>,
     <<"J", "M", "P", " ", "7", "0", "0", "0", "0">>}

\* lines with too few or too many arguments for their mnemonic
WrongArgCountLines ==
    {<<"H", "A", "L", "T", " ", "R", "0">>,
     <<"H", "A", "L", "T", " ", "1">>,
     <<"L", "V", "A", "L">>,
     <<"L", "V", "A", "L", " ", "R", "0">>,
     <<"L", "V", "A", "L", " ", "R", "0", ",", " ", "1", ",", " ", "2">>,
     <<"L", "O", "A", "D", " ", "R", "1">>,
     <<"S", "T", "O", "R", "E">>,
     <<"A", "D", "D", " ", "R", "0">>,
     <<"A", "D", "D", " ", "R", "0", ",", " ", "R", "1", ",", " ", "R", "2">>,
     <<"S", "U", "B", " ", "R", "1">>,
     <<"M", "O", "V">>,
     <<"M", "O", "V", " ", "R", "0", ",", " ", "R", "1", ",", " ", "R", "2">>,
     <<"J", "M", "P">>,
     <<"J", "M", "P", " ", "1", ",", " ", "2">>}

\* comment lines and blank lines
IgnoredLines ==
    {<<";">>,
     <<";", " ", "x">>,
     <<";", "H", "A", "L", "T">>,
     <<>>,
     <<" ">>,
     <<" ", " ">>}

ProbeLines ==
    BadMnemonicLines \cup BadRegisterLines \cup OversizedLiteralLines
        \cup WrongArgCountLines \cup IgnoredLines

\* a good line, the line under test, and HALT
ProbeSources == {<<GoodLine, l, HaltLine>> : l \in ProbeLines}

Sources ==
    {<<>>, SrcAdd, SrcJmp, SrcComment, SrcBadRegister, SrcBadMnemonic, SrcStore,
     SrcFill(MemSize), SrcFill(MemSize + 1)}
        \cup ProbeSources

InitAsm ==
    /\ source \in Sources
    /\ line_no = 0
    /\ output_file = <<>>
    /\ cpu = default
    /\ program = <<>>
    /\ memory_list_state = <<>>
    /\ register_logs = <<>>
    /\ step_mode = TRUE
    /\ exit = FALSE
    /\ loop = "asm"
    /\ panicked = FALSE
    /\ last = "init"
    /\ pre = default
    /\ call = NoCall
    /\ given = <<>>
    /\ result = <<>>
    /\ cycles = 0

NextAsm ==
    \/ assemble
    \/ load_program
    \/ Next

SpecAsm == InitAsm /\ [][NextAsm]_vars

-----------------------------------------------------------------------------
(* main.rs : its own OpCode and CPU::execute *)

\* enum OpCode of cpu.rs : the discriminant of each variant
OpCode_discriminant(op) ==
    CASE op = "HALT" -> 0
      [] op = "LVAL" -> 1
      [] op = "LOAD" -> 2
      [] op = "STORE" -> 3
      [] op = "ADD" -> 4
      [] op = "SUB" -> 5
      [] op = "JMP" -> 6
      [] op = "MOV" -> 7

\* enum OpCode of main.rs : the discriminant of each variant
main_OpCode_discriminant(op) ==
    CASE op = "HALT" -> 0
      [] op = "LVAL" -> 1
      [] op = "LOAD" -> 2
      [] op = "STORE" -> 3
      [] op = "ADD" -> 4
      [] op = "SUB" -> 5
      [] op = "JMP" -> 6
      [] op = "MOV" -> 7

\* OpCode::u8_to_opcode of main.rs
main_u8_to_opcode(value) ==
    CASE value = 0 -> "HALT"
      [] value = 1 -> "LVAL"
      [] value = 3 -> "LOAD"
      [] value = 4 -> "STORE"
      [] value = 5 -> "ADD"
      [] value = 6 -> "SUB"
      [] value = 7 -> "JMP"
      [] value = 8 -> "MOV"
      [] OTHER -> "None"

\* CPU::execute of main.rs : the arms are those of cpu.rs, the table is its own
main_execute(c, opcode, register, operand) ==
    LET op == main_u8_to_opcode(opcode)
    IN  CASE op = "None"  -> Panic(c)
          [] op = "HALT"  -> execute_HALT(c, register, operand)
          [] op = "LVAL"  -> execute_LVAL(c, register, operand)
          [] op = "LOAD"  -> execute_LOAD(c, register, operand)
          [] op = "STORE" -> execute_STORE(c, register, operand)
          [] op = "ADD"   -> execute_ADD(c, register, operand)
          [] op = "SUB"   -> execute_SUB(c, register, operand)
          [] op = "JMP"   -> execute_JMP(c, register, operand)
          [] op = "MOV"   -> execute_MOV(c, register, operand)

-----------------------------------------------------------------------------
(* Direct calls, continued : decode of packed words, the opcode tables, and
   execution of assembled words *)

OpCodeNames == {"HALT", "LVAL", "LOAD", "STORE", "ADD", "SUB", "JMP", "MOV"}

\* the word opcode << 12 | reg << 8 | operand
PackWord(opcode, reg, operand) == opcode * 4096 + reg * 256 + operand

\* an opcode to send through its own table, or a bare code
LookupInputs ==
    {[kind |-> "opcode", op |-> op, code |-> 0] : op \in OpCodeNames}
    \cup {[kind |-> "code", op |-> "None", code |-> v] : v \in 8 .. 15}

ImmediateValues == {0, 1, 9, 10, 63, 64, 99, 100, 255}

\* well-formed lines, each with the mnemonic, register and operand it names
AssembledInputs ==
    {[mnemonic |-> "HALT", register |-> 0, operand |-> 0,
      line |-> MnemonicText("HALT")]}
    \cup {[mnemonic |-> m, register |-> r, operand |-> v,
           line |-> MnemonicText(m) \o <<" ">> \o RegisterText(r)
                    \o <<",", " ">> \o Numeral(v)] :
             m \in {"LVAL", "LOAD", "STORE"}, r \in 0 .. 3, v \in ImmediateValues}
    \cup {[mnemonic |-> m, register |-> r, operand |-> q,
           line |-> MnemonicText(m) \o <<" ">> \o RegisterText(r)
                    \o <<",", " ">> \o RegisterText(q)] :
             m \in {"ADD", "SUB", "MOV"}, r \in 0 .. 3, q \in 0 .. 3}
    \cup {[mnemonic |-> "JMP", register |-> 0, operand |-> v,
           line |-> MnemonicText("JMP") \o <<" ">> \o Numeral(v)] :
             v \in ImmediateValues}

AssembledCpus == {c \in EngineCpus : c.pc = 0}

\* OpCode::u8_to_opcode(op as u8) of cpu.rs, or of a bare code
call_u8_to_opcode ==
    /\ loop = "lookup"
    /\ result' = IF given.kind = "opcode"
                 THEN u8_to_opcode(OpCode_discriminant(given.op))
                 ELSE u8_to_opcode(given.code)
    /\ loop' = "called"
    /\ last' = "u8_to_opcode"
    /\ pre' = cpu
    /\ UNCHANGED <<cpu, program, memory_list_state, register_logs, step_mode, exit,
                   panicked, call, source, line_no, output_file, given, cycles>>

\* OpCode::u8_to_opcode(op as u8) of main.rs, or of a bare code
call_main_u8_to_opcode ==
    /\ loop = "lookup"
    /\ result' = IF given.kind = "opcode"
                 THEN main_u8_to_opcode(main_OpCode_discriminant(given.op))
                 ELSE main_u8_to_opcode(given.code)
    /\ loop' = "called"
    /\ last' = "main_u8_to_opcode"
    /\ pre' = cpu
    /\ UNCHANGED <<cpu, program, memory_list_state, register_logs, step_mode, exit,
                   panicked, call, source, line_no, output_file, given, cycles>>

\* the word assembled from a line, decoded and executed by the CPU of cpu.rs
run_assembled ==
    /\ loop = "assembled"
    /\ LET d == decode([cpu EXCEPT !.ir = assemble_line(given.line).word])
       IN  /\ Called(execute(cpu, d[1], d[2], d[3]))
           /\ call' = CallOf("execute", d)
    /\ last' = "run_assembled"

\* the word assembled from a line, decoded and executed by the CPU of main.rs
main_run_assembled ==
    /\ loop = "assembled"
    /\ LET d == decode([cpu EXCEPT !.ir = assemble_line(given.line).word])
       IN  /\ Called(main_execute(cpu, d[1], d[2], d[3]))
           /\ call' = CallOf("execute", d)
    /\ last' = "main_run_assembled"

WordSamples == {0, 1, 255, 256, 4660, 65280, 65535}

MaxWords == 3

\* the word sequences written to program.bin
WordSeqs == UNION {[1 .. n -> WordSamples] : n \in 0 .. MaxWords}

RECURSIVE write_words(_)
\* output_file.write(word.to_be_bytes()) for each word in turn
write_words(words) ==
    IF words = <<>> THEN <<>>
    ELSE to_be_bytes(Head(words)) \o write_words(Tail(words))

\* the assembler's writes of a sequence of words to program.bin
write_program_bin ==
    /\ loop = "binary"
    /\ output_file' = write_words(given)
    /\ loop' = "written"
    /\ last' = "write"
    /\ pre' = cpu
    /\ UNCHANGED <<cpu, program, memory_list_state, register_logs, step_mode, exit,
                   panicked, call, source, line_no, given, result, cycles>>

\* the loader's read of program.bin back into words
call_read_program ==
    /\ loop = "written"
    /\ result' = read_program(output_file)
    /\ loop' = "called"
    /\ last' = "read_program"
    /\ pre' = cpu
    /\ UNCHANGED <<cpu, program, memory_list_state, register_logs, step_mode, exit,
                   panicked, call, source, line_no, output_file, given, cycles>>

\* execute ADD then SUB, or SUB then ADD, with the same register and operand
call_execute_pair ==
    /\ loop = "engine"
    /\ \E opcode \in {4, 5}, register \in Selectors, operand \in Selectors :
          LET first == execute(cpu, opcode, register, operand)
          IN  /\ Called(execute(first.cpu, 9 - opcode, register, operand))
              /\ call' = CallOf("execute_pair", <<opcode, register, operand>>)
    /\ last' = "execute_pair"

JmpAddresses == {0, 1, 62, 63}

JmpTargets == {0, 1, 2, 63, 64, 255}

\* CPUs whose PC points at a JMP word
JmpCpus ==
    {[c EXCEPT !.pc = a, !.memory[a] = PackWord(6, r, t)] :
        c \in EngineCpus, a \in JmpAddresses, r \in {0, 5}, t \in JmpTargets}

\* fetch, decode and execute in a row, as App::step and App::run call them
call_cycle ==
    /\ loop = "cycle"
    /\ Called(cycle(cpu))
    /\ last' = "cycle"
    /\ call' = CallOf("cycle", decode([cpu EXCEPT !.ir = cpu.memory[cpu.pc]]))

InitEngine ==
    /\ \/ /\ loop = "engine"
          /\ cpu \in EngineCpus
          /\ given = <<>>
       \/ /\ loop = "cycle"
          /\ cpu \in JmpCpus
          /\ given = <<>>
       \/ /\ loop = "binary"
          /\ cpu = default
          /\ given \in WordSeqs
       \/ /\ loop = "decode"
          /\ \E opcode \in Opcodes, register \in Selectors, operand \in 0 .. 255 :
                /\ given = <<opcode, register, operand>>
                /\ cpu = [default EXCEPT !.ir = PackWord(opcode, register, operand)]
       \/ /\ loop = "lookup"
          /\ cpu = default
          /\ given \in LookupInputs
       \/ /\ loop = "assembled"
          /\ cpu \in AssembledCpus
          /\ given \in AssembledInputs
    /\ program = ProgAdd
    /\ memory_list_state = <<0>>
    /\ register_logs = <<>>
    /\ step_mode = TRUE
    /\ exit = FALSE
    /\ panicked = FALSE
    /\ last = "init"
    /\ pre = cpu
    /\ call = NoCall
    /\ source = <<>>
    /\ line_no = 0
    /\ output_file = <<>>
    /\ result = <<>>
    /\ cycles = 0

NextEngine ==
    \/ call_fetch
    \/ call_decode
    \/ call_execute
    \/ reset_cpu
    \/ call_u8_to_opcode
    \/ call_main_u8_to_opcode
    \/ run_assembled
    \/ main_run_assembled
    \/ write_program_bin
    \/ call_read_program
    \/ call_cycle
    \/ call_execute_pair

SpecEngine == InitEngine /\ [][NextEngine]_vars

-----------------------------------------------------------------------------
(* The cycle of App::step and App::run taken one call at a time : fetch, then
   decode, then execute, repeated while the CPU is not halted *)

\* cap on the number of cycles a program is run for
MaxRun == 65

\* cap on the length of the enumerated programs
MaxProgramLen == 2

\* HALT, LVAL R0,5, LVAL R1,3, LOAD R2,1, ADD R0,R1, SUB R0,R1, MOV R1,R2,
\* STORE R1,0, JMP 0, JMP 63, JMP 64, JMP 255, opcode 9, LOAD R0,64
CycleWords ==
    {0, 4101, 4355, 8705, 16385, 20481, 28930,
     12544, 24576, 24639, 24640, 24831, 36864, 8256}

\* n words LVAL R1, 7
ProgFill(n) == [k \in 1 .. n |-> 4359]

\* LVAL R1,3 / STORE R1,0 / JMP 0 : the word at address 0 is rewritten, then fetched
ProgStoreJmp == <<4355, 12544, 24576>>

CyclePrograms ==
    UNION {[1 .. n -> CycleWords] : n \in 0 .. MaxProgramLen}
        \cup {ProgStoreJmp, ProgFill(MemSize - 1), ProgFill(MemSize)}

\* self.cpu.fetch()
cpu_fetch ==
    /\ loop = "fetch"
    /\ ~cpu.halted
    /\ cycles < MaxRun
    /\ LET r == fetch(cpu)
       IN  /\ cpu' = r.cpu
           /\ panicked' = r.panic
           /\ loop' = IF r.panic THEN "panicked" ELSE "decode"
    /\ pre' = cpu
    /\ last' = "fetch"
    /\ call' = NoCall
    /\ UNCHANGED <<program, memory_list_state, register_logs, step_mode, exit,
                   source, line_no, output_file, given, result, cycles>>

\* let (opcode, register, operand) = self.cpu.decode()
cpu_decode ==
    /\ loop = "decode"
    /\ call' = CallOf("decode", decode(cpu))
    /\ loop' = "execute"
    /\ pre' = cpu
    /\ last' = "decode"
    /\ UNCHANGED <<cpu, program, memory_list_state, register_logs, step_mode, exit,
                   panicked, source, line_no, output_file, given, result, cycles>>

\* self.cpu.execute(opcode, register, operand)
cpu_execute ==
    /\ loop = "execute"
    /\ LET r == execute(cpu, call.opcode, call.register, call.operand)
       IN  /\ cpu' = r.cpu
           /\ panicked' = r.panic
           /\ loop' = IF r.panic THEN "panicked" ELSE "fetch"
           /\ cycles' = IF r.panic THEN cycles ELSE cycles + 1
    /\ pre' = cpu
    /\ last' = "execute"
    /\ UNCHANGED <<program, memory_list_state, register_logs, step_mode, exit,
                   call, source, line_no, output_file, given, result>>

InitCycle ==
    /\ program \in CyclePrograms
    /\ cpu = new(program).cpu
    /\ loop = "fetch"
    /\ memory_list_state = <<0>>
    /\ register_logs = <<>>
    /\ step_mode = TRUE
    /\ exit = FALSE
    /\ panicked = FALSE
    /\ last = "init"
    /\ pre = cpu
    /\ call = NoCall
    /\ source = <<>>
    /\ line_no = 0
    /\ output_file = <<>>
    /\ given = <<>>
    /\ result = <<>>
    /\ cycles = 0

NextCycle ==
    \/ cpu_fetch
    \/ cpu_decode
    \/ cpu_execute

SpecCycle == InitCycle /\ [][NextCycle]_vars

-----------------------------------------------------------------------------
(* Properties *)

\* register i of a CPU, i in 0..3
Reg(c, i) == <<c.r0, c.r1, c.r2, c.r3>>[i + 1]

\* C1: in the driver, a step taken while the CPU is halted that is not a reset
\* (Enter, 't', a scroll, any other event, a loop iteration) runs no cycle and
\* leaves registers, memory, PC, IR and halted as they were.
C1_HaltedDriverIsIdle ==
    (pre.halted /\ last \notin {"init", "r"}) =>
        (cpu = pre /\ call.op # "cycle")

\* Enter was pressed in step mode while the CPU was halted
C1_Witness == pre.halted /\ last = "enter" /\ step_mode /\ cpu.halted

\* C2: a fetch, decode or execute call on a halted CPU leaves it halted; the
\* only call that takes a halted CPU to a running one is the reset, and it
\* yields the CPU built from the program.
C2_HaltedIsTerminal ==
    /\ (pre.halted /\ last \in {"fetch", "decode", "execute"}) => cpu.halted
    /\ (pre.halted /\ ~cpu.halted) =>
          (last = "r" /\ cpu = new(program).cpu)

\* a JMP executed on a halted CPU moved PC and left it halted
C2_Witness ==
    /\ last = "execute"
    /\ call.opcode = 6
    /\ pre.halted
    /\ cpu.halted
    /\ cpu.pc # pre.pc

\* C3: the four lines LVAL R0, 5 / LVAL R1, 3 / ADD R0, R1 / HALT assemble to
\* four words that, loaded and cycled, halt after the fourth cycle with
\* R0 = 8 and PC = 4.
C3_AddProgramRuns ==
    source = SrcAdd =>
        /\ ~panicked
        /\ loop # "asm_failed"
        /\ line_no = 4 => read_program(output_file) = <<4101, 4355, 16385, 0>>
        /\ cpu.halted => (cpu.r0 = 8 /\ cpu.pc = 4 /\ Len(register_logs) = 4)
        /\ Len(register_logs) >= 4 => cpu.halted

\* the assembled program has run to its HALT
C3_Witness == source = SrcAdd /\ cpu.halted /\ cpu.r0 = 8 /\ cpu.pc = 4

\* the first cycle of the loaded program has just run
FirstCycleDone ==
    /\ call.op = "cycle"
    /\ pre = new(read_program(output_file)).cpu
    /\ ~panicked

\* C4 as stated: after JMP 0 / HALT is assembled and loaded, one cycle leaves
\* PC = 1 and halted = false.
C4_Original ==
    (source = SrcJmp /\ FirstCycleDone) => (cpu.pc = 1 /\ ~cpu.halted)

\* C4: after JMP 0 / HALT is assembled and loaded, one cycle leaves PC = 0
\* (the jump target replaces the incremented PC) and halted = false.
C4_JmpProgramFirstCycle ==
    (source = SrcJmp /\ FirstCycleDone) =>
        (cpu.pc = 0 /\ ~cpu.halted /\ cpu.ir = 24576)

\* the first cycle of the assembled JMP 0 / HALT has run
C4_Witness == source = SrcJmp /\ FirstCycleDone /\ Len(register_logs) = 1

\* C5: ADD and SUB never fault and leave (a + b) mod 2^16, (a - b) mod 2^16 in
\* the destination, the source being the register operand & 0b11.
C5_AddSubWrap ==
    (last = "execute" /\ call.opcode \in {4, 5}) =>
        LET d == call.register % 4
            s == call.operand % 4
            a == Reg(pre, d)
            b == Reg(pre, s)
        IN  /\ ~panicked
            /\ call.opcode = 4 => Reg(cpu, d) = (a + b) % 65536
            /\ call.opcode = 5 => Reg(cpu, d) = (a - b + 65536) % 65536

\* ADD R0,R1 with R0 = 65535 and R1 = 1 left R0 = 0
C5_Witness ==
    /\ last = "execute"
    /\ call.opcode = 4
    /\ call.register = 0
    /\ call.operand = 1
    /\ pre.r0 = 65535
    /\ pre.r1 = 1
    /\ cpu.r0 = 0

\* C6: executing LVAL, LOAD, STORE, ADD, SUB or MOV with register field s has
\* the outcome of executing it with s & 0b11, and for ADD, SUB and MOV the same
\* holds of the source selector in the operand.
C6_SelectorAliasing ==
    (last = "execute" /\ call.opcode \in {1, 2, 3, 4, 5, 7}) =>
        LET got == [cpu |-> cpu, panic |-> panicked]
        IN  /\ got = execute(pre, call.opcode, call.register % 4, call.operand)
            /\ call.opcode \in {4, 5, 7} =>
                  got = execute(pre, call.opcode, call.register, call.operand % 4)

\* a MOV with both selectors above 3 changed a register
C6_Witness ==
    /\ last = "execute"
    /\ call.opcode = 7
    /\ call.register > 3
    /\ call.operand > 3
    /\ cpu # pre

\* C7: LVAL, LOAD and MOV write the register the register field selects and
\* nothing else; STORE with operand < 64 writes memory[operand] and nothing else.
C7_LoadStoreFrame ==
    /\ (last = "execute" /\ call.opcode \in {1, 2, 7}) =>
          /\ \A i \in (0 .. 3) \ {call.register % 4} : Reg(cpu, i) = Reg(pre, i)
          /\ cpu.memory = pre.memory
          /\ cpu.pc = pre.pc
          /\ cpu.ir = pre.ir
          /\ cpu.halted = pre.halted
          /\ call.opcode = 1 => Reg(cpu, call.register % 4) = call.operand
          /\ (call.opcode = 2 /\ call.operand < 64) =>
                Reg(cpu, call.register % 4) = pre.memory[call.operand]
          /\ call.opcode = 7 =>
                Reg(cpu, call.register % 4) = Reg(pre, call.operand % 4)
    /\ (last = "execute" /\ call.opcode = 3 /\ call.operand < 64) =>
          /\ ~panicked
          /\ \A i \in 0 .. 3 : Reg(cpu, i) = Reg(pre, i)
          /\ \A a \in (0 .. 63) \ {call.operand} : cpu.memory[a] = pre.memory[a]
          /\ cpu.memory[call.operand] = Reg(pre, call.register % 4)
          /\ cpu.pc = pre.pc
          /\ cpu.ir = pre.ir
          /\ cpu.halted = pre.halted

\* a STORE with operand < 64 changed a memory word
C7_Witness ==
    /\ last = "execute"
    /\ call.opcode = 3
    /\ call.operand < 64
    /\ cpu.memory # pre.memory

\* C8: HALT with any register and operand fields sets halted and leaves the
\* registers, memory, PC and IR as they were.
C8_HaltFrame ==
    (last = "execute" /\ call.opcode = 0) =>
        (~panicked /\ cpu = [pre EXCEPT !.halted = TRUE])

\* HALT with non-zero fields halted a running CPU whose PC was not 0
C8_Witness ==
    /\ last = "execute"
    /\ call.opcode = 0
    /\ call.register # 0
    /\ call.operand # 0
    /\ ~pre.halted
    /\ pre.pc # 0
    /\ cpu.halted

\* C9: executing an opcode code in 8..15 panics (the caller is unwound, the
\* call does not return normally) and changes nothing.
C9_InvalidOpcodeIsFatal ==
    (last = "execute" /\ call.opcode \in 8 .. 15) =>
        (panicked /\ loop = "panicked" /\ cpu = pre)

\* opcode code 8 was executed and panicked
C9_Witness == last = "execute" /\ call.opcode = 8 /\ panicked

\* C10: fetch with PC >= 64, and LOAD or STORE with operand >= 64, panic and
\* change nothing (the address is not reduced modulo 64).
C10_OutOfRangeIsFatal ==
    (\/ last = "fetch" /\ pre.pc >= 64
     \/ last = "execute" /\ call.opcode \in {2, 3} /\ call.operand >= 64) =>
        (panicked /\ loop = "panicked" /\ cpu = pre)

\* LOAD with operand 64 panicked
C10_Witness ==
    /\ last = "execute"
    /\ call.opcode = 2
    /\ call.operand = 64
    /\ panicked

\* C11: building a CPU from more than 64 words panics and loads nothing;
\* from at most 64 words it yields memory = the program then zeros, with the
\* registers, PC and IR 0 and halted false.
C11_NewRejectsLongProgram ==
    last = "load" =>
        LET prog == read_program(output_file)
        IN  IF Len(prog) > 64
            THEN panicked /\ loop = "panicked" /\ cpu.memory = ZeroMemory
            ELSE /\ ~panicked
                 /\ \A a \in 0 .. 63 :
                       cpu.memory[a] = IF a < Len(prog) THEN prog[a + 1] ELSE 0
                 /\ cpu.r0 = 0 /\ cpu.r1 = 0 /\ cpu.r2 = 0 /\ cpu.r3 = 0
                 /\ cpu.pc = 0 /\ cpu.ir = 0
                 /\ ~cpu.halted

\* a program of 65 words was handed to CPU::new, which panicked
C11_Witness ==
    /\ last = "load"
    /\ Len(read_program(output_file)) = 65
    /\ panicked

C13_DecodeInvertsPacking ==
    /\ (last = "decode" /\ given # <<>>) =>
          <<call.opcode, call.register, call.operand>> = given
    /\ last = "run_assembled" =>
          /\ u8_to_opcode(call.opcode) = given.mnemonic
          /\ call.register = given.register
          /\ call.operand = given.operand

\* the word 7 << 12 | 15 << 8 | 255 was decoded
C13_Witness ==
    /\ last = "decode"
    /\ given = <<7, 15, 255>>
    /\ pre.ir = 32767
    /\ call.register = 15

\* C14: the opcode table round-trips, in cpu.rs and in main.rs : each of the
\* eight opcodes, cast to its own numeric code and sent through u8_to_opcode,
\* comes back as that opcode, and every code 8..15 comes back as None.
C14_OpcodeTableRoundTrips ==
    last \in {"u8_to_opcode", "main_u8_to_opcode"} =>
        result = IF given.kind = "opcode" THEN given.op ELSE "None"

\* the semantics of mnemonic m, applied to CPU c with the fields r and v
Semantics(m, c, r, v) ==
    CASE m = "HALT"  -> execute_HALT(c, r, v)
      [] m = "LVAL"  -> execute_LVAL(c, r, v)
      [] m = "LOAD"  -> execute_LOAD(c, r, v)
      [] m = "STORE" -> execute_STORE(c, r, v)
      [] m = "ADD"   -> execute_ADD(c, r, v)
      [] m = "SUB"   -> execute_SUB(c, r, v)
      [] m = "JMP"   -> execute_JMP(c, r, v)
      [] m = "MOV"   -> execute_MOV(c, r, v)

\* C15: the assembler and the CPU share one encoding : the word assembled from
\* a line with mnemonic M is executed, by the CPU of cpu.rs and by the CPU of
\* main.rs, with the semantics of M on the register and operand the line names.
C15_SharedEncoding ==
    last \in {"run_assembled", "main_run_assembled"} =>
        [cpu |-> cpu, panic |-> panicked]
            = Semantics(given.mnemonic, pre, given.register, given.operand)

\* a comment line or a blank line : first character ';', or nothing but whitespace
IsCommentOrBlank(line) ==
    \/ line # <<>> /\ line[1] = ";"
    \/ \A i \in 1 .. Len(line) : line[i] \in {" ", "\t"}

\* the instruction lines among lines, in order
InstructionLines(lines) == SelectSeq(lines, LAMBDA l : ~IsCommentOrBlank(l))

RECURSIVE EmittedBytes(_)
\* the bytes of the words of the accepted lines among lines, in order
EmittedBytes(lines) ==
    IF lines = <<>> THEN <<>>
    ELSE LET r == assemble_line(Head(lines))
         IN  (IF r.kind = "word" THEN <<r.word \div 256, r.word % 256>> ELSE <<>>)
                 \o EmittedBytes(Tail(lines))

\* the lines before the one the assembler has just processed
PrecedingLines == SubSeq(source, 1, line_no - 1)

\* the assembler has just processed a line of the set lines
JustAssembled(lines) == last = "asm" /\ source[line_no] \in lines

\* C16: lines are processed in order and every accepted instruction line appends
\* one word : while the run has not failed, the output holds as many words as
\* there are instruction lines among the lines processed, and the k-th word is
\* the encoding of the k-th instruction line, high byte first.
C16_OneWordPerInstructionLine ==
    /\ loop = "asm" =>
          LET instr == InstructionLines(SubSeq(source, 1, line_no))
          IN  /\ Len(output_file) = 2 * Len(instr)
              /\ \A k \in 1 .. Len(instr) :
                    /\ output_file[2 * k - 1] = assemble_line(instr[k]).word \div 256
                    /\ output_file[2 * k] = assemble_line(instr[k]).word % 256
    /\ (loop = "asm" /\ source = SrcAdd /\ line_no = 4) =>
          output_file = <<16, 5, 17, 3, 64, 1, 0, 0>>
    /\ (loop = "asm" /\ source = SrcComment /\ line_no = 5) =>
          output_file = <<114, 3, 82, 2, 0, 0>>

\* five lines, two of them ignored, assembled to three words
C16_Witness ==
    /\ last = "asm"
    /\ loop = "asm"
    /\ source = SrcComment
    /\ line_no = 5
    /\ Len(output_file) = 6

\* C17: a line with an unknown mnemonic, or with a register token that is not
\* exactly R0, R1, R2 or R3, fails the run and appends no word : the output
\* holds only the words of the preceding lines.
C17_BadMnemonicOrRegisterFails ==
    JustAssembled(BadMnemonicLines \cup BadRegisterLines) =>
        /\ loop = "asm_failed"
        /\ output_file = EmittedBytes(PrecedingLines)

\* STORE R4, 2 after LOAD R3, 1 : the run failed with one word written
C17_Witness ==
    /\ last = "asm"
    /\ source = SrcBadRegister
    /\ line_no = 2
    /\ loop = "asm_failed"
    /\ output_file = <<35, 1>>

\* C18: a numeric literal outside 0..255 in LVAL, LOAD, STORE or JMP is a fatal
\* assembly error, and no word is emitted for the line.
C18_OversizedLiteralFails ==
    JustAssembled(OversizedLiteralLines) =>
        /\ loop = "asm_failed"
        /\ output_file = EmittedBytes(PrecedingLines)

\* C19: a line with too few or too many arguments for its mnemonic, HALT
\* followed by an argument included, fails the run and emits no word.
C19_WrongArgumentCountFails ==
    JustAssembled(WrongArgCountLines) =>
        /\ loop = "asm_failed"
        /\ output_file = EmittedBytes(PrecedingLines)

\* C20: a line whose first character is ';' and a blank line (empty or only
\* whitespace) emit no word and do not fail the run.
C20_CommentAndBlankIgnored ==
    (last = "asm" /\ IsCommentOrBlank(source[line_no])) =>
        /\ loop = "asm"
        /\ output_file = EmittedBytes(PrecedingLines)

\* C21: the bytes the assembler writes for a sequence of words (each word high
\* byte first, nothing before or between them) are read back by the loader as
\* the same sequence of words in the same order.
C21_BinaryRoundTrip ==
    last = "read_program" =>
        /\ result = given
        /\ Len(output_file) = 2 * Len(given)

\* three words with unequal bytes were written and read back
C21_Witness ==
    /\ last = "read_program"
    /\ given = <<4660, 65280, 255>>
    /\ output_file = <<18, 52, 255, 0, 0, 255>>
    /\ result = <<4660, 65280, 255>>

\* C22: a full cycle that fetches a JMP with operand t, from any address, ends
\* with PC = t (the operand replaces the incremented PC, it is not added to
\* it), and with registers, memory and halted as they were.
C22_JmpOverwritesPc ==
    (last = "cycle" /\ pre.pc < 64 /\ pre.memory[pre.pc] \div 4096 = 6) =>
        /\ ~panicked
        /\ cpu.pc = pre.memory[pre.pc] % 256
        /\ \A i \in 0 .. 3 : Reg(cpu, i) = Reg(pre, i)
        /\ cpu.memory = pre.memory
        /\ cpu.halted = pre.halted

\* JMP 255 fetched from address 63 : PC is 255, not 64 + 255 and not 255 mod 64
C22_Witness ==
    /\ last = "cycle"
    /\ pre.pc = 63
    /\ pre.memory[63] = 24831
    /\ cpu.pc = 255
    /\ ~panicked

\* C23: fetch with PC in 0..63 sets IR to the current word at memory[PC], a
\* word rewritten by an earlier STORE included, then PC to (PC + 1) mod 2^16,
\* and leaves registers, memory and halted alone; the decode that follows
\* returns the three fields of that IR and changes nothing.
C23_FetchThenDecode ==
    /\ (last = "fetch" /\ pre.pc \in 0 .. 63) =>
          /\ ~panicked
          /\ cpu.ir = pre.memory[pre.pc]
          /\ cpu.pc = (pre.pc + 1) % 65536
          /\ \A i \in 0 .. 3 : Reg(cpu, i) = Reg(pre, i)
          /\ cpu.memory = pre.memory
          /\ cpu.halted = pre.halted
    /\ last = "decode" =>
          /\ call.opcode = cpu.ir \div 4096
          /\ call.register = (cpu.ir \div 256) % 16
          /\ call.operand = cpu.ir % 256
          /\ cpu = pre
          /\ ~panicked

\* the word at address 0, rewritten to 3 by STORE R1,0, was fetched after JMP 0
\* and decoded
C23_Witness ==
    /\ last = "decode"
    /\ program = ProgStoreJmp
    /\ cycles = 3
    /\ cpu.pc = 1
    /\ cpu.ir = 3
    /\ call.operand = 3

\* C24: in every state reached from new(program) by cycles that do not fault,
\* PC is at most 255, and right after a fetch PC is in 1..64 : running a
\* program never brings the PC increment to its wraparound at 2^16.
C24_PcStaysSmall ==
    ~panicked =>
        /\ cpu.pc <= 255
        /\ last = "fetch" => cpu.pc \in 1 .. 64

\* the fetch of the last word of a program filling memory left PC at 64
C24_Witness ==
    /\ last = "fetch"
    /\ ~panicked
    /\ program = ProgFill(64)
    /\ pre.pc = 63
    /\ cpu.pc = 64

\* a program that can only fall through : at most 63 words, no JMP, no STORE, no
\* opcode code 8..15, no LOAD with operand >= 64
FallsThrough(prog) ==
    /\ Len(prog) <= 63
    /\ \A k \in 1 .. Len(prog) :
          /\ prog[k] \div 4096 \notin {3, 6} \cup (8 .. 15)
          /\ ~(prog[k] \div 4096 = 2 /\ prog[k] % 256 >= 64)

\* C25: a program that can only fall through reaches halted = true within
\* len(program) + 1 cycles and never faults; the empty program halts after one
\* cycle with PC = 1 and all registers 0.
C25_FallThroughHalts ==
    FallsThrough(program) =>
        /\ ~panicked
        /\ cycles <= Len(program) + 1
        /\ cycles = Len(program) + 1 => cpu.halted
        /\ (loop = "fetch" /\ ~cpu.halted) => cycles <= Len(program)
        /\ (program = <<>> /\ cycles = 1) =>
              /\ cpu.halted
              /\ cpu.pc = 1
              /\ \A i \in 0 .. 3 : Reg(cpu, i) = 0

\* 63 words of LVAL ran, then the zero word after them was executed as HALT
C25_Witness ==
    /\ program = ProgFill(63)
    /\ cycles = 64
    /\ cpu.halted
    /\ cpu.pc = 64
    /\ cpu.r1 = 7
    /\ ~panicked

\* C26: in the driver the number of entries of register_logs always equals the
\* number of cycles completed since the last reset or since start; Enter runs a
\* cycle only while step_mode is true and a loop iteration's tail only while
\* step_mode is false; and one Enter press, like one loop iteration, runs at
\* most one cycle.
C26_LogCountsCycles ==
    /\ [](Len(register_logs) = cycles)
    /\ [](call.op = "cycle" =>
             \/ last = "enter" /\ step_mode
             \/ last = "tail" /\ ~step_mode)
    /\ [][/\ cycles' <= cycles + 1
          /\ Len(register_logs') <= Len(register_logs) + 1
          /\ (last = "enter" /\ call.op = "cycle")
                => ~(last' = "tail" /\ call'.op = "cycle")]_vars

\* two cycles have run, the second one free-running
C26_Witness ==
    /\ last = "tail"
    /\ call.op = "cycle"
    /\ ~step_mode
    /\ cycles = 2
    /\ Len(register_logs) = 2
    /\ ~panicked

\* C27: ADD and SUB undo each other modulo 2^16 : with Rd and Rs distinct,
\* ADD Rd,Rs then SUB Rd,Rs, or SUB then ADD, leaves the whole CPU as it was;
\* and SUB Rd,Rd leaves Rd = 0.
C27_AddSubInverse ==
    /\ (last = "execute_pair" /\ call.register % 4 # call.operand % 4) =>
          /\ cpu = pre
          /\ ~panicked
    /\ (last = "execute" /\ call.opcode = 5
           /\ call.register % 4 = call.operand % 4) =>
          Reg(cpu, call.register % 4) = 0

\* 65535 + 1 wrapped to 0 and the SUB brought back 65535
C27_Witness ==
    /\ last = "execute_pair"
    /\ call.opcode = 4
    /\ call.register = 0
    /\ call.operand = 1
    /\ pre.r0 = 65535
    /\ pre.r1 = 1
    /\ cpu.r0 = 65535

====
